---- MODULE Spec2Model ----
(***************************************************************************)
(* Model of shatter's content parser (src/shard.rs): Shards::parse and its  *)
(* recognizers parse_hashtag and parse_indexed_mention, run over a byte     *)
(* buffer.  Bytes are the integers 0..255, buffer offsets are 0-based as in *)
(* the source (the byte at offset p of data is data[p + 1]).                *)
(***************************************************************************)
EXTENDS Integers, Sequences, FiniteSets, TLC

VARIABLES data, pos, start, before_parse, shards, pc, result

vars == <<data, pos, start, before_parse, shards, pc, result>>

(***************************************************************************)
(* Bounds and inputs                                                        *)
(***************************************************************************)
MaxLen == 5

\* one byte of each class the code tells apart: '1' (digit, alphanumeric),
\* '#', '[', ']' (punctuation), ' ' (whitespace), 0xF0 (high bit set) and 0x01
\* (a control byte: in no class); the test inputs add letters and '.'
Alphabet == {49, 35, 91, 93, 32, 240, 1}

\* the inputs of the unit tests of src/shard.rs
T_basic == <<97, 98, 99, 32, 35, 240, 159, 152, 142>>
T_adjacent == <<97, 97, 35, 97, 98, 99>>
T_start == <<35, 97, 98, 99, 46>>
T_end == <<35, 97, 98, 99>>
T_punc_before == <<46, 35, 97, 98, 99>>
T_indexed_mention ==
  <<116, 104, 105, 115, 32, 105, 115, 32, 35, 91, 49, 57, 93, 32,
    35, 91, 49, 32, 97, 32, 109, 101, 110, 116, 105, 111, 110>>
T_multiple_hashtags == <<46, 35, 97, 108, 105, 99, 101, 46, 35, 98, 111, 98>>
T_multiple_adjacent_hashtags == <<35, 97, 108, 105, 99, 101, 35, 98, 111, 98>>
T_emoji_before == <<240, 159, 152, 164, 35, 97, 98, 99>>

TestInputs ==
  {T_basic, T_adjacent, T_start, T_end, T_punc_before, T_indexed_mention,
   T_multiple_hashtags, T_multiple_adjacent_hashtags, T_emoji_before}

Inputs == (UNION {[1..n -> Alphabet] : n \in 0..MaxLen}) \cup TestInputs

(***************************************************************************)
(* Integer widths and byte literals                                         *)
(***************************************************************************)
\* u16 of Mention::Index; the u32 casts of ByteSlice::new are the identity on
\* every offset of a buffer shorter than 2^32 bytes
U16 == 65536

HASH == 35
LBRACKET == 91
RBRACKET == 93

Min(S) == CHOOSE x \in S : \A y \in S : x <= y

(***************************************************************************)
(* Data model                                                               *)
(***************************************************************************)
ByteSlice(p, l) == [pos |-> p, len |-> l]

Text(bs) == [kind |-> "Text", slice |-> bs]
Hashtag(bs) == [kind |-> "Hashtag", slice |-> bs]
MentionIndex(n) == [kind |-> "Mention", mention |-> [kind |-> "Index", ind |-> n]]


\* the variants the enums declare and parse never builds
Url(bs) == [kind |-> "Url", slice |-> bs]
MentionBech32(bs) == [kind |-> "Mention", mention |-> [kind |-> "Bech32", slice |-> bs]]

\* ByteSlice::bytes: data[pos .. pos + len]
bytes(bs, d) == SubSeq(d, bs.pos + 1, bs.pos + bs.len)

(***************************************************************************)
(* Results and errors of crate::parser                                      *)
(***************************************************************************)
OutOfBoundsStart == "OutOfBounds(Start)"
OutOfBoundsEnd == "OutOfBounds(End)"
NotFound == "NotFound"

Ok(p, v) == [ok |-> TRUE, err |-> "", pos |-> p, val |-> v]
Err(p, e) == [ok |-> FALSE, err |-> e, pos |-> p, val |-> 0]

(***************************************************************************)
(* Cursor primitives (crate::parser).  Each takes the buffer and the        *)
(* cursor position and returns the outcome with the new position.           *)
(***************************************************************************)
peek_prev_byte(d, p) ==
  IF p = 0 THEN Err(p, OutOfBoundsStart) ELSE Ok(p, d[p])

is_ascii_digit(c) == c >= 48 /\ c <= 57

parse_char(d, p, c) ==
  IF p < Len(d) /\ d[p + 1] = c THEN Ok(p + 1, c) ELSE Err(p, NotFound)

RECURSIVE digits_end(_, _)
digits_end(d, p) ==
  IF p < Len(d) /\ is_ascii_digit(d[p + 1]) THEN digits_end(d, p + 1) ELSE p

RECURSIVE digits_value(_, _, _, _)
digits_value(d, p, e, acc) ==
  IF p >= e THEN acc
  ELSE digits_value(d, p + 1, e, (acc * 10 + (d[p + 1] - 48)) % U16)

parse_digits(d, p) ==
  LET e == digits_end(d, p) IN
  IF e = p THEN Err(p, NotFound) ELSE Ok(e, digits_value(d, p, e, 0))

(***************************************************************************)
(* Boundary rules                                                           *)
(***************************************************************************)
is_ascii_whitespace(c) == c \in {9, 10, 12, 13, 32}

is_ascii_punctuation(c) ==
  \/ c >= 33 /\ c <= 47
  \/ c >= 58 /\ c <= 64
  \/ c >= 91 /\ c <= 96
  \/ c >= 123 /\ c <= 126

is_boundary_char(c) == is_ascii_whitespace(c) \/ is_ascii_punctuation(c)


\* is_left_boundary_char without the high-bit rule
is_left_boundary_char_ascii(c) == is_boundary_char(c)

is_left_boundary_char(c) == is_boundary_char(c) \/ c >= 128


\* is_left_boundary that accepts every previous byte
is_left_boundary_any_byte(r) ==
  IF r.ok THEN TRUE
  ELSE r.err \in {OutOfBoundsStart, OutOfBoundsEnd}

is_left_boundary(r) ==
  IF r.ok THEN is_left_boundary_char(r.val)
  ELSE r.err \in {OutOfBoundsStart, OutOfBoundsEnd}

\* Parser::parse_until with the needle is_boundary_char
parse_until_boundary(d, p) ==
  LET hits == {q \in p..(Len(d) - 1) : is_boundary_char(d[q + 1])} IN
  IF hits = {} THEN Err(IF p > Len(d) THEN p ELSE Len(d), OutOfBoundsEnd)
  ELSE Ok(Min(hits), 0)

(***************************************************************************)
(* Recognizers                                                              *)
(***************************************************************************)


\* parse_indexed_mention that does not ask for the closing ']'
parse_indexed_mention_no_close(d, p) ==
  LET r1 == parse_char(d, p, LBRACKET)
      r2 == parse_digits(d, r1.pos)
  IN  IF ~r1.ok THEN Err(r1.pos, r1.err)
      ELSE IF ~r2.ok THEN Err(r2.pos, r2.err)
      ELSE Ok(r2.pos, r2.val)

\* The three `?` of lines 77-79 sit in a plain block, not in a closure: a
\* failing step returns from parse_indexed_mention at once, with the cursor
\* where that step left it, and the map_err of lines 82-85 is applied only to
\* the block's value Ok(ind), so its set_pos(start) never runs.
parse_indexed_mention(d, p) ==
  LET r1 == parse_char(d, p, LBRACKET)
      r2 == parse_digits(d, r1.pos)
      r3 == parse_char(d, r2.pos, RBRACKET)
  IN  IF ~r1.ok THEN Err(r1.pos, r1.err)
      ELSE IF ~r2.ok THEN Err(r2.pos, r2.err)
      ELSE IF ~r3.ok THEN Err(r3.pos, r3.err)
      ELSE Ok(r3.pos, r2.val)

\* parse_hashtag with a scan that consumes the byte that stops it
parse_hashtag_eats_terminator(d, p) ==
  LET st == p
      r == parse_until_boundary(d, p)
  IN  IF r.ok \/ r.err = OutOfBoundsEnd
      THEN LET len == r.pos - st IN
           IF len <= 0 THEN Err(r.pos, NotFound)
           ELSE Ok(IF r.ok THEN r.pos + 1 ELSE r.pos, ByteSlice(st, len))
      ELSE Err(r.pos, r.err)


\* parse_hashtag whose slice starts at the '#' instead of right after it
parse_hashtag_with_hash(d, p) ==
  LET st == p
      r == parse_until_boundary(d, p)
  IN  IF r.ok \/ r.err = OutOfBoundsEnd
      THEN LET len == r.pos - st IN
           IF len <= 0 THEN Err(r.pos, NotFound)
           ELSE Ok(r.pos, ByteSlice(st - 1, len + 1))
      ELSE Err(r.pos, r.err)


\* parse_hashtag that takes OutOfBounds(End) of the scan for a failure
parse_hashtag_end_is_error(d, p) ==
  LET st == p
      r == parse_until_boundary(d, p)
  IN  IF r.ok
      THEN LET len == r.pos - st IN
           IF len <= 0 THEN Err(r.pos, NotFound)
           ELSE Ok(r.pos, ByteSlice(st, len))
      ELSE Err(r.pos, r.err)


\* parse_hashtag whose length counts the byte at which the scan stopped
parse_hashtag_len_plus_one(d, p) ==
  LET st == p
      r == parse_until_boundary(d, p)
  IN  IF r.ok \/ r.err = OutOfBoundsEnd
      THEN LET len == r.pos - st + 1 IN
           IF len <= 0 THEN Err(r.pos, NotFound)
           ELSE Ok(r.pos, ByteSlice(st, len))
      ELSE Err(r.pos, r.err)


\* parse_hashtag that rejects only a negative length
parse_hashtag_allows_empty(d, p) ==
  LET st == p
      r == parse_until_boundary(d, p)
  IN  IF r.ok \/ r.err = OutOfBoundsEnd
      THEN LET len == r.pos - st IN
           IF len < 0 THEN Err(r.pos, NotFound)
           ELSE Ok(r.pos, ByteSlice(st, len))
      ELSE Err(r.pos, r.err)

parse_hashtag(d, p) ==
  LET st == p
      r == parse_until_boundary(d, p)
  IN  IF r.ok \/ r.err = OutOfBoundsEnd
      THEN LET len == r.pos - st IN
           IF len <= 0 THEN Err(r.pos, NotFound)
           ELSE Ok(r.pos, ByteSlice(st, len))
      ELSE Err(r.pos, r.err)


\* push_txt with the length of an inclusive range
push_txt_inclusive(sh, st, upto) ==
  LET len == upto - st + 1 IN
  IF len = 0 THEN sh
  ELSE Append(sh, Text(ByteSlice(st, len)))

\* push_txt without the check that elides an empty run
push_txt_no_elide(sh, st, upto) ==
  LET len == upto - st IN
  Append(sh, Text(ByteSlice(st, len)))

push_txt(sh, st, upto) ==
  LET len == upto - st IN
  IF len = 0 THEN sh
  ELSE Append(sh, Text(ByteSlice(st, len)))

(***************************************************************************)
(* One iteration of the loop of Shards::parse, on the loop's locals         *)
(* s = [pos, start, shards, err]                                            *)
(***************************************************************************)
prev_boundary(d, p) == is_left_boundary(peek_prev_byte(d, p))

token_start(d, p) == d[p + 1] = HASH /\ prev_boundary(d, p)


\* the loop body with `?` on the indexed-mention attempt: its error leaves parse
loop_body_propagates(d, s) ==
  LET before == s.pos
      after == s.pos + 1
  IN  IF token_start(d, before)
      THEN LET ht == parse_hashtag(d, after) IN
           IF ht.ok
           THEN [s EXCEPT !.pos = ht.pos, !.start = ht.pos,
                          !.shards = Append(push_txt(s.shards, s.start, before),
                                            Hashtag(ht.val))]
           ELSE LET ind == parse_indexed_mention(d, ht.pos) IN
                IF ind.ok
                THEN [s EXCEPT !.pos = ind.pos, !.start = ind.pos,
                               !.shards = Append(push_txt(s.shards, s.start, before),
                                                 MentionIndex(ind.val))]
                ELSE [s EXCEPT !.pos = ind.pos, !.err = ind.err]
      ELSE [s EXCEPT !.pos = after]


\* the loop body pushing the span it scanned after a '#' as Shard::Url
loop_body_pushes_url(d, s) ==
  LET before == s.pos
      after == s.pos + 1
  IN  IF token_start(d, before)
      THEN LET ht == parse_hashtag(d, after) IN
           IF ht.ok
           THEN [s EXCEPT !.pos = ht.pos, !.start = ht.pos,
                          !.shards = Append(push_txt(s.shards, s.start, before),
                                            Url(ht.val))]
           ELSE LET ind == parse_indexed_mention(d, ht.pos) IN
                IF ind.ok
                THEN [s EXCEPT !.pos = ind.pos, !.start = ind.pos,
                               !.shards = Append(push_txt(s.shards, s.start, before),
                                                 MentionIndex(ind.val))]
                ELSE [s EXCEPT !.pos = ind.pos]
      ELSE [s EXCEPT !.pos = after]


\* the loop body pushing the token before the pending text run
loop_body_token_first(d, s) ==
  LET before == s.pos
      after == s.pos + 1
  IN  IF token_start(d, before)
      THEN LET ht == parse_hashtag(d, after) IN
           IF ht.ok
           THEN [s EXCEPT !.pos = ht.pos, !.start = ht.pos,
                          !.shards = push_txt(Append(s.shards, Hashtag(ht.val)),
                                              s.start, before)]
           ELSE LET ind == parse_indexed_mention(d, ht.pos) IN
                IF ind.ok
                THEN [s EXCEPT !.pos = ind.pos, !.start = ind.pos,
                               !.shards = push_txt(Append(s.shards,
                                                          MentionIndex(ind.val)),
                                                   s.start, before)]
                ELSE [s EXCEPT !.pos = ind.pos]
      ELSE [s EXCEPT !.pos = after]


\* the loop body restarting the text run at before_parse instead of at the
\* cursor after the token
loop_body_start_at_before(d, s) ==
  LET before == s.pos
      after == s.pos + 1
  IN  IF token_start(d, before)
      THEN LET ht == parse_hashtag(d, after) IN
           IF ht.ok
           THEN [s EXCEPT !.pos = ht.pos, !.start = before,
                          !.shards = Append(push_txt(s.shards, s.start, before),
                                            Hashtag(ht.val))]
           ELSE LET ind == parse_indexed_mention(d, ht.pos) IN
                IF ind.ok
                THEN [s EXCEPT !.pos = ind.pos, !.start = before,
                               !.shards = Append(push_txt(s.shards, s.start, before),
                                                 MentionIndex(ind.val))]
                ELSE [s EXCEPT !.pos = ind.pos]
      ELSE [s EXCEPT !.pos = after]


\* the loop body flushing the pending text run also when both recognizers fail
loop_body_flushes_on_failure(d, s) ==
  LET before == s.pos
      after == s.pos + 1
  IN  IF token_start(d, before)
      THEN LET ht == parse_hashtag(d, after) IN
           IF ht.ok
           THEN [s EXCEPT !.pos = ht.pos, !.start = ht.pos,
                          !.shards = Append(push_txt(s.shards, s.start, before),
                                            Hashtag(ht.val))]
           ELSE LET ind == parse_indexed_mention(d, ht.pos) IN
                IF ind.ok
                THEN [s EXCEPT !.pos = ind.pos, !.start = ind.pos,
                               !.shards = Append(push_txt(s.shards, s.start, before),
                                                 MentionIndex(ind.val))]
                ELSE [s EXCEPT !.pos = ind.pos, !.start = before,
                               !.shards = push_txt(s.shards, s.start, before)]
      ELSE [s EXCEPT !.pos = after]


\* the loop body restarting the text run one byte past the cursor
loop_body_start_past_cursor(d, s) ==
  LET before == s.pos
      after == s.pos + 1
  IN  IF token_start(d, before)
      THEN LET ht == parse_hashtag(d, after) IN
           IF ht.ok
           THEN [s EXCEPT !.pos = ht.pos, !.start = ht.pos + 1,
                          !.shards = Append(push_txt(s.shards, s.start, before),
                                            Hashtag(ht.val))]
           ELSE LET ind == parse_indexed_mention(d, ht.pos) IN
                IF ind.ok
                THEN [s EXCEPT !.pos = ind.pos, !.start = ind.pos + 1,
                               !.shards = Append(push_txt(s.shards, s.start, before),
                                                 MentionIndex(ind.val))]
                ELSE [s EXCEPT !.pos = ind.pos]
      ELSE [s EXCEPT !.pos = after]

loop_body(d, s) ==
  LET before == s.pos
      after == s.pos + 1
  IN  IF token_start(d, before)
      THEN LET ht == parse_hashtag(d, after) IN
           IF ht.ok
           THEN [s EXCEPT !.pos = ht.pos, !.start = ht.pos,
                          !.shards = Append(push_txt(s.shards, s.start, before),
                                            Hashtag(ht.val))]
           ELSE LET ind == parse_indexed_mention(d, ht.pos) IN
                IF ind.ok
                THEN [s EXCEPT !.pos = ind.pos, !.start = ind.pos,
                               !.shards = Append(push_txt(s.shards, s.start, before),
                                                 MentionIndex(ind.val))]
                ELSE [s EXCEPT !.pos = ind.pos]
      ELSE [s EXCEPT !.pos = after]

\* Shards::parse as a function of its input: the loop, the final flush and
\* the returned Result (s.err is an error that left the loop; the loop has no
\* `?`, so none does)
RECURSIVE run(_, _)
run(d, s) ==
  IF s.err # "" THEN [ok |-> FALSE, err |-> s.err, val |-> s.shards]
  ELSE IF s.pos < Len(d) THEN run(d, loop_body(d, s))
  ELSE [ok |-> TRUE, err |-> "", val |-> push_txt(s.shards, s.start, s.pos)]

parse(content) ==
  run(content, [pos |-> 0, start |-> 0, shards |-> <<>>, err |-> ""])

(***************************************************************************)
(* The state machine: parse run one loop iteration at a time                *)
(***************************************************************************)
locals == [pos |-> pos, start |-> start, shards |-> shards, err |-> ""]

Init ==
  /\ data \in Inputs
  /\ pos = 0
  /\ start = 0
  /\ before_parse = 0
  /\ shards = <<>>
  /\ pc = "loop"
  /\ result = "none"

Iterate ==
  LET s == loop_body(data, locals) IN
  /\ before_parse' = pos
  /\ pos' = s.pos
  /\ start' = s.start
  /\ shards' = s.shards
  /\ pc' = IF s.err = "" THEN "loop" ELSE "done"
  /\ result' = IF s.err = "" THEN "none" ELSE "Err"
  /\ UNCHANGED data

\* the byte is not a '#' at a left boundary: it joins the pending text run
PlainByte ==
  /\ pc = "loop"
  /\ pos < Len(data)
  /\ ~token_start(data, pos)
  /\ Iterate

\* parse_hashtag succeeds
PushHashtag ==
  /\ pc = "loop"
  /\ pos < Len(data)
  /\ token_start(data, pos)
  /\ parse_hashtag(data, pos + 1).ok
  /\ Iterate

\* parse_hashtag fails and parse_indexed_mention succeeds
PushIndexedMention ==
  /\ pc = "loop"
  /\ pos < Len(data)
  /\ token_start(data, pos)
  /\ ~parse_hashtag(data, pos + 1).ok
  /\ parse_indexed_mention(data, parse_hashtag(data, pos + 1).pos).ok
  /\ Iterate

\* both recognizers fail: the '#' stays in the pending text run
NoToken ==
  /\ pc = "loop"
  /\ pos < Len(data)
  /\ token_start(data, pos)
  /\ ~parse_hashtag(data, pos + 1).ok
  /\ ~parse_indexed_mention(data, parse_hashtag(data, pos + 1).pos).ok
  /\ Iterate

\* the loop exits: flush the final text run and return Ok(shards)
Return ==
  /\ pc = "loop"
  /\ ~(pos < Len(data))
  /\ shards' = push_txt(shards, start, pos)
  /\ result' = "Ok"
  /\ pc' = "done"
  /\ UNCHANGED <<data, pos, start, before_parse>>

Next ==
  \/ PlainByte
  \/ PushHashtag
  \/ PushIndexedMention
  \/ NoToken
  \/ Return

Spec == Init /\ [][Next]_vars


\* parse is one synchronous call: an iteration, or the return, that can run
\* does run
FairSpec == Init /\ [][Next]_vars /\ WF_vars(Next)

TypeOK ==
  /\ pc \in {"loop", "done"}
  /\ result \in {"none", "Ok", "Err"}
  /\ pos \in 0..Len(data)
  /\ start \in 0..Len(data)

(***************************************************************************)
(* Vocabulary of the properties, stated on bytes and offsets independently  *)
(* of the operators above                                                   *)
(***************************************************************************)
WhitespaceBytes == {9, 10, 12, 13, 32}
PunctuationBytes == (33..47) \cup (58..64) \cup (91..96) \cup (123..126)
BoundaryBytes == WhitespaceBytes \cup PunctuationBytes
AlnumBytes == (48..57) \cup (65..90) \cup (97..122)
DigitBytes == 48..57

Done == pc = "done"

HasSpan(sh) == sh.kind \in {"Text", "Hashtag"}
SpanEnd(sh) == sh.slice.pos + sh.slice.len

\* the byte at offset p is a '#' with nothing, or a boundary byte, before it
LeftBoundaryAt(d, p) == p = 0 \/ d[p] \in BoundaryBytes \/ d[p] >= 128
HashAt(d, p) == p < Len(d) /\ d[p + 1] = HASH

\* the offset right after a "#[digits]" that starts at offset b, or -1
MentionEnd(d, b) ==
  LET ends == {e \in (b + 4)..Len(d) :
                 /\ d[b + 1] = HASH
                 /\ d[b + 2] = LBRACKET
                 /\ d[e] = RBRACKET
                 /\ \A q \in (b + 3)..(e - 1) : d[q] \in DigitBytes}
  IN  IF ends = {} THEN -1 ELSE Min(ends)

RECURSIVE DecimalValue(_)
DecimalValue(ds) ==
  IF ds = <<>> THEN 0
  ELSE 10 * DecimalValue(SubSeq(ds, 1, Len(ds) - 1)) + (ds[Len(ds)] - 48)

MentionValue(d, b) == DecimalValue(SubSeq(d, b + 3, MentionEnd(d, b) - 1))

\* the bytes of the spans of a shard sequence, concatenated in order
RECURSIVE Rebuild(_, _)
Rebuild(shs, d) ==
  IF shs = <<>> THEN <<>>
  ELSE (IF HasSpan(Head(shs)) THEN bytes(Head(shs).slice, d) ELSE <<>>)
       \o Rebuild(Tail(shs), d)

\* shs tiles d from offset from on, when a Hashtag is taken with the '#' before
\* its span and a Mention(Index(n)) with the "#[digits]" of value n it stands for
RECURSIVE Tiles(_, _, _)
Tiles(d, shs, from) ==
  IF shs = <<>> THEN from = Len(d)
  ELSE LET sh == Head(shs) IN
       CASE sh.kind = "Text" ->
              /\ sh.slice.pos = from
              /\ Tiles(d, Tail(shs), SpanEnd(sh))
         [] sh.kind = "Hashtag" ->
              /\ HashAt(d, from)
              /\ sh.slice.pos = from + 1
              /\ Tiles(d, Tail(shs), SpanEnd(sh))
         [] sh.kind = "Mention" ->
              /\ MentionEnd(d, from) # -1
              /\ sh.mention = [kind |-> "Index", ind |-> MentionValue(d, from) % U16]
              /\ Tiles(d, Tail(shs), MentionEnd(d, from))

AllText(shs) == \A i \in 1..Len(shs) : shs[i].kind = "Text"

(***************************************************************************)
(* C1  Coverage                                                             *)
(***************************************************************************)
\* C1 as stated: once parse has returned, the bytes of the shards' spans,
\* concatenated in sequence order, are the input.
C1_SpansReproduceInput == Done => Rebuild(shards, data) = data

\* C1, amended: once parse has returned, the shards tile the input in order
\* with no gap and no overlap when each Hashtag is taken together with the '#'
\* right before its span and each Mention(Index(n)) with the "#[digits]" bytes
\* of value n it was recognised from; the spans alone reproduce the input
\* exactly when every shard is a Text shard.
C1_Coverage ==
  Done => /\ Tiles(data, shards, 0)
          /\ (Rebuild(shards, data) = data) <=> AllText(shards)

\* a returned parse with a Hashtag, a Text shard and spans that miss a byte
C1_Witness ==
  /\ Done
  /\ \E i \in 1..Len(shards) : shards[i].kind = "Hashtag"
  /\ \E i \in 1..Len(shards) : shards[i].kind = "Text"
  /\ Rebuild(shards, data) # data

(***************************************************************************)
(* C2  Adjacent spans                                                       *)
(***************************************************************************)
BothSpans(i) == HasSpan(shards[i]) /\ HasSpan(shards[i + 1])

\* C2 as stated: once parse has returned, every shard with a successor ends
\* at the offset where its successor begins.
C2_SpansMeet ==
  Done => \A i \in 1..(Len(shards) - 1) :
            BothSpans(i) => SpanEnd(shards[i]) = shards[i + 1].slice.pos

\* C2, amended: once parse has returned, for consecutive shards that both
\* carry a span, shard i ends exactly where shard i+1 begins when shard i+1 is
\* a Text shard, and exactly one byte before it, at the '#', when shard i+1 is
\* a Hashtag; a Mention carries no span.
C2_AdjacentSpans ==
  Done => \A i \in 1..(Len(shards) - 1) :
            BothSpans(i) =>
              IF shards[i + 1].kind = "Text"
              THEN SpanEnd(shards[i]) = shards[i + 1].slice.pos
              ELSE /\ SpanEnd(shards[i]) + 1 = shards[i + 1].slice.pos
                   /\ HashAt(data, SpanEnd(shards[i]))

\* a returned parse with a Text shard after a Hashtag and a Hashtag after a
\* Text shard
C2_Witness ==
  /\ Done
  /\ \E i \in 1..(Len(shards) - 1) :
       shards[i].kind = "Hashtag" /\ shards[i + 1].kind = "Text"
  /\ \E i \in 1..(Len(shards) - 1) :
       shards[i].kind = "Text" /\ shards[i + 1].kind = "Hashtag"

(***************************************************************************)
(* C3  Left-boundary gating                                                 *)
(***************************************************************************)
AlnumBefore(d, p) == HashAt(d, p) /\ p > 0 /\ d[p] \in AlnumBytes

InText(p) ==
  \E i \in 1..Len(shards) :
    /\ shards[i].kind = "Text"
    /\ shards[i].slice.pos <= p
    /\ p < SpanEnd(shards[i])

C4_AdjacentHashtags ==
  Done =>
    /\ \A i \in 1..Len(shards) :
         (/\ shards[i].kind = "Hashtag"
          /\ HashAt(data, SpanEnd(shards[i]))
          /\ SpanEnd(shards[i]) + 1 < Len(data)
          /\ data[SpanEnd(shards[i]) + 2] \notin BoundaryBytes)
         => /\ i < Len(shards)
            /\ shards[i + 1] = Hashtag(ByteSlice(SpanEnd(shards[i]) + 1,
                                                 shards[i + 1].slice.len))
    /\ data = T_multiple_adjacent_hashtags
         => shards = <<Hashtag(ByteSlice(1, 5)), Hashtag(ByteSlice(7, 3))>>

(***************************************************************************)
(* C5  No empty text                                                        *)
(***************************************************************************)
\* C5: in every state of parse, no Text shard of the sequence has length zero.
C5_NoEmptyText ==
  \A i \in 1..Len(shards) : shards[i].kind = "Text" => shards[i].slice.len > 0

\* a returned parse whose first token starts at offset 0, is directly followed
\* by a second token and ends the input: three empty runs were flushed
C5_Witness ==
  /\ Done
  /\ Len(shards) = 2
  /\ shards[1].kind = "Hashtag" /\ shards[1].slice.pos = 1
  /\ shards[2].kind = "Hashtag" /\ SpanEnd(shards[2]) = Len(data)

\* a returned parse of the empty input
C5_WitnessEmpty == Done /\ data = <<>> /\ shards = <<>>

(***************************************************************************)
(* C6  Idempotence of re-scan                                               *)
(***************************************************************************)
Rescan == parse(Rebuild(shards, data))

\* C6 as stated: once parse has returned, parsing the text rebuilt from the
\* spans of its shards yields the same shard sequence.
C6_RescanIdentical == Done => Rescan.val = shards

\* C6, amended: once parse has returned, parsing the text rebuilt from the
\* spans of its shards yields the same shard sequence exactly when the first
\* parse recognised no Hashtag and no Mention (every shard is a Text shard);
\* after a recognised token the rebuilt text lacks the token's '#' or
\* "#[digits]" bytes and the second sequence differs.
C6_RescanIdempotence ==
  Done => ((Rescan.ok /\ Rescan.val = shards) <=> AllText(shards))

\* a returned parse of an input that has a '#' and in which no token was
\* recognised
C6_Witness ==
  /\ Done
  /\ shards # <<>>
  /\ AllText(shards)
  /\ \E p \in 0..(Len(data) - 1) : HashAt(data, p)

\* a returned parse with a token, whose re-scan differs
C6_WitnessToken == Done /\ ~AllText(shards) /\ Rescan.val # shards

(***************************************************************************)
(* C7  parse never reports an error                                         *)
(***************************************************************************)
\* the final text run [start, length) is in the sequence unless it is empty
FinalFlushed ==
  \/ start = Len(data)
  \/ /\ shards # <<>>
     /\ shards[Len(shards)] = Text(ByteSlice(start, Len(data) - start))

\* C7: no iteration of the loop ends the call (whatever error its recognizers
\* raise, the loop goes on with no result yet), and when the call returns its
\* result is Ok, the cursor is at the end of the buffer and the final text
\* run is flushed.
C7_NeverErr ==
  [][ /\ (pc = "loop" /\ pos < Len(data)) => (pc' = "loop" /\ result' = "none")
      /\ Done' => (result' = "Ok" /\ pos' = Len(data) /\ FinalFlushed')
    ]_vars

\* a returned parse during which, at a '#' on a left boundary, parse_hashtag
\* and parse_indexed_mention both failed with NotFound, and at another '#' the
\* scan of parse_hashtag ran into OutOfBounds(End)
C7_Witness ==
  /\ Done
  /\ result = "Ok"
  /\ \E p \in 0..(Len(data) - 1) :
       /\ HashAt(data, p) /\ LeftBoundaryAt(data, p)
       /\ parse_hashtag(data, p + 1).err = NotFound
       /\ parse_indexed_mention(data, p + 1).err = NotFound
  /\ \E p \in 0..(Len(data) - 1) :
       /\ HashAt(data, p) /\ LeftBoundaryAt(data, p)
       /\ parse_until_boundary(data, p + 1).err = OutOfBoundsEnd
       /\ parse_hashtag(data, p + 1).ok

(***************************************************************************)
(* C8  Indexed mention recognition                                          *)
(***************************************************************************)
\* the sequence after the pending text run [st, upto) is flushed
WithPendingText(sh, st, upto) ==
  IF st < upto THEN Append(sh, Text(ByteSlice(st, upto - st))) ELSE sh

MentionAt(d, p) == HashAt(d, p) /\ LeftBoundaryAt(d, p) /\ MentionEnd(d, p) # -1

IncompleteMentionAt(d, p) ==
  /\ HashAt(d, p) /\ LeftBoundaryAt(d, p)
  /\ p + 1 < Len(d) /\ d[p + 2] = LBRACKET
  /\ MentionEnd(d, p) = -1

Last(sh) == sh[Len(sh)]

\* C8: the iteration that reads a '#' on a left boundary followed by '[', one
\* or more digits and ']' (of a value within 16 bits) appends the Text shard of
\* the pending run that ends at the '#' (when it is not empty) and then
\* Mention(Index(N)), N the decimal value of the digits, and leaves the cursor
\* and the start of the next run right after the ']'; at an incomplete pattern
\* it appends nothing and leaves the pending run as it is, so that the bytes
\* of the pattern end up in a Text shard;
\* once parse has returned, the sequence has one Mention per complete pattern,
\* and "this is #[19] #[1 a mention" yields Text(0,8), Mention(Index(19)),
\* Text(13,14).
C8_IndexedMention ==
  [][ /\ (pc = "loop" /\ MentionAt(data, pos) /\ MentionValue(data, pos) < U16)
         => /\ shards' = Append(WithPendingText(shards, start, pos),
                                MentionIndex(MentionValue(data, pos)))
            /\ pos' = MentionEnd(data, pos)
            /\ start' = MentionEnd(data, pos)
      /\ (pc = "loop" /\ IncompleteMentionAt(data, pos))
         => shards' = shards /\ start' = start
      /\ Done' =>
           /\ \A b \in 0..(Len(data) - 1) :
                MentionAt(data, b) =>
                  \E i \in 1..Len(shards') :
                    shards'[i] = MentionIndex(MentionValue(data, b))
           /\ Cardinality({i \in 1..Len(shards') : shards'[i].kind = "Mention"})
                = Cardinality({b \in 0..(Len(data) - 1) : MentionAt(data, b)})
           /\ \A b \in 0..(Len(data) - 1) :
                IncompleteMentionAt(data, b) => (InText(b)' /\ InText(b + 1)')
           /\ data = T_indexed_mention
                => shards' = <<Text(ByteSlice(0, 8)), MentionIndex(19),
                               Text(ByteSlice(13, 14))>>
    ]_vars

\* a returned parse of an input with a complete pattern after a non-empty
\* text run and an incomplete pattern
C8_Witness ==
  /\ Done
  /\ \E b \in 1..(Len(data) - 1) : MentionAt(data, b) /\ InText(b - 1)
  /\ \E b \in 0..(Len(data) - 1) : IncompleteMentionAt(data, b) /\ InText(b)

(***************************************************************************)
(* C9  Hashtag scan to a boundary byte or to the end of the buffer          *)
(***************************************************************************)
\* the offset of the first boundary byte after offset p, or the length
BodyEnd(d, p) ==
  LET stops == {q \in (p + 1)..(Len(d) - 1) : d[q + 1] \in BoundaryBytes} IN
  IF stops = {} THEN Len(d) ELSE Min(stops)

HashtagAt(d, p) ==
  /\ HashAt(d, p) /\ LeftBoundaryAt(d, p)
  /\ p + 1 < Len(d) /\ d[p + 2] \notin BoundaryBytes

\* C9: the iteration that reads a '#' on a left boundary followed by a
\* non-boundary byte appends (after the pending text run) a Hashtag whose span
\* runs from the byte after the '#' to the first boundary byte, or to the
\* buffer length when there is none, and leaves the cursor and the start of
\* the next run there, the boundary byte not consumed; once parse has
\* returned, a Hashtag that reaches the end of the buffer is the last shard,
\* "#abc" yields Hashtag(1,3) alone and "#abc." yields Hashtag(1,3), Text(4,1).
C9_HashtagScan ==
  [][ /\ (pc = "loop" /\ HashtagAt(data, pos))
         => /\ shards' = Append(WithPendingText(shards, start, pos),
                                Hashtag(ByteSlice(pos + 1,
                                                  BodyEnd(data, pos) - (pos + 1))))
            /\ pos' = BodyEnd(data, pos)
            /\ start' = BodyEnd(data, pos)
      /\ Done' =>
           /\ \A i \in 1..Len(shards') :
                (shards'[i].kind = "Hashtag" /\ SpanEnd(shards'[i]) = Len(data))
                => i = Len(shards')
           /\ data = T_end => shards' = <<Hashtag(ByteSlice(1, 3))>>
           /\ data = T_start
                => shards' = <<Hashtag(ByteSlice(1, 3)), Text(ByteSlice(4, 1))>>
    ]_vars

\* a returned parse with a Hashtag stopped by a boundary byte, which starts
\* the following Text shard, and a Hashtag that runs to the end of the buffer
C9_Witness ==
  /\ Done
  /\ \E i \in 1..(Len(shards) - 1) :
       /\ shards[i].kind = "Hashtag"
       /\ shards[i + 1].kind = "Text"
       /\ shards[i + 1].slice.pos = SpanEnd(shards[i])
  /\ Last(shards).kind = "Hashtag"
  /\ SpanEnd(Last(shards)) = Len(data)

(***************************************************************************)
(* C10  Left-boundary rule                                                  *)
(***************************************************************************)
InHashtag(p) ==
  \E i \in 1..Len(shards) :
    /\ shards[i].kind = "Hashtag"
    /\ shards[i].slice.pos <= p
    /\ p < SpanEnd(shards[i])

C11_ByteSliceBound ==
  \A i \in 1..Len(shards) :
    HasSpan(shards[i]) =>
      /\ shards[i].slice.pos >= 0
      /\ shards[i].slice.len >= 0
      /\ SpanEnd(shards[i]) <= Len(data)
      /\ Len(bytes(shards[i].slice, data)) = shards[i].slice.len

\* a returned parse with a Text shard before a Hashtag whose span ends at the
\* last byte of the buffer
C11_Witness ==
  /\ Done
  /\ Len(shards) >= 2
  /\ shards[1].kind = "Text"
  /\ Last(shards).kind = "Hashtag"
  /\ SpanEnd(Last(shards)) = Len(data)

(***************************************************************************)
(* C12  Reserved kinds                                                      *)
(***************************************************************************)
\* C12: in every state of parse, every shard of the sequence is a Text, a
\* Hashtag or a Mention(Index(n)) with n a 16-bit value; none is a Url and
\* none a Mention(Bech32(_)).
C12_ReservedKinds ==
  \A i \in 1..Len(shards) :
    /\ shards[i].kind \in {"Text", "Hashtag", "Mention"}
    /\ shards[i].kind # "Url"
    /\ shards[i].kind = "Mention" =>
         /\ shards[i].mention.kind = "Index"
         /\ shards[i].mention.kind # "Bech32"
         /\ shards[i].mention.ind \in 0..(U16 - 1)

\* a returned parse whose sequence holds a Mention and a shard with a span
C12_Witness ==
  /\ Done
  /\ \E i \in 1..Len(shards) : shards[i].kind = "Mention"
  /\ \E i \in 1..Len(shards) : HasSpan(shards[i])

(***************************************************************************)
(* C13  Failed recognition                                                  *)
(***************************************************************************)
\* a '#' on a left boundary at which neither recognizer can succeed
NoTokenAt(d, p) ==
  /\ HashAt(d, p) /\ LeftBoundaryAt(d, p)
  /\ ~HashtagAt(d, p)
  /\ MentionEnd(d, p) = -1

\* C13: the iteration that reads a '#' on a left boundary at which the hashtag
\* attempt and then the indexed-mention attempt fail ('[' missing, no digit or
\* ']' missing) ends with the cursor right after the '#', the start of the
\* pending run unchanged and no shard appended; and a failed hashtag attempt
\* leaves the cursor right after the '#'.
C13_FailedRecognition ==
  [][ /\ (pc = "loop" /\ NoTokenAt(data, pos))
         => pos' = pos + 1 /\ start' = start /\ shards' = shards
      /\ (pc = "loop" /\ HashAt(data, pos) /\ LeftBoundaryAt(data, pos)
          /\ ~parse_hashtag(data, pos + 1).ok)
         => parse_hashtag(data, pos + 1).pos = pos + 1
    ]_vars

(***************************************************************************)
(* C14  Termination and progress                                            *)
(***************************************************************************)
\* every iteration moves the cursor forward, inside the buffer
C14_Progress ==
  [][ (pc = "loop" /\ pos < Len(data)) => (pos' > pos /\ pos' <= Len(data)) ]_vars

\* the final flush happens with the cursor at the length of the buffer
C14_ExitAtLength == [][ (pc = "loop" /\ Done') => pos = Len(data) ]_vars

\* after a failed recognition the cursor is one past the position recorded at
\* the start of the iteration
C14_BacktrackToNext ==
  [][ (pc = "loop" /\ NoTokenAt(data, pos)) => pos' = pos + 1 ]_vars

\* parse returns
C14_Terminates == <>Done

\* C14: parse returns; every iteration ends with the cursor strictly greater
\* than at its start, a failed indexed-mention attempt leaving it at
\* before + 1; and the loop is left, for the final flush, with the cursor at
\* the length of the buffer.
C14_TerminationProgress ==
  /\ C14_Terminates
  /\ C14_Progress
  /\ C14_BacktrackToNext
  /\ C14_ExitAtLength

(***************************************************************************)
(* C15  Hashtag body shape                                                  *)
(***************************************************************************)
\* a '#' on a left boundary with nothing, or a boundary byte, right after it
LoneHashAt(d, p) == HashAt(d, p) /\ LeftBoundaryAt(d, p) /\ ~HashtagAt(d, p)

BodyShape(sh) ==
  /\ sh.slice.len >= 1
  /\ \A q \in sh.slice.pos..(SpanEnd(sh) - 1) : data[q + 1] \notin BoundaryBytes
  /\ SpanEnd(sh) < Len(data) => data[SpanEnd(sh) + 1] \in BoundaryBytes

\* C15: after every step of parse, every Hashtag of the sequence has a body
\* of at least one byte, with no ASCII whitespace and no ASCII punctuation
\* byte in it, and the byte right after the body, if there is one, is ASCII
\* whitespace or punctuation; the iteration that reads a '#' on a left
\* boundary with nothing or a boundary byte after it gets NotFound from
\* parse_hashtag and appends no Hashtag.
C15_HashtagBody ==
  [][ /\ \A i \in 1..Len(shards') :
           shards'[i].kind = "Hashtag" => BodyShape(shards'[i])
      /\ (pc = "loop" /\ LoneHashAt(data, pos))
         => /\ parse_hashtag(data, pos + 1).err = NotFound
            /\ \A i \in (Len(shards) + 1)..Len(shards') :
                 shards'[i].kind # "Hashtag"
    ]_vars

\* a returned parse with a Hashtag of two or more bytes stopped by a boundary
\* byte, of an input that also has a '#' on a left boundary with no body
C15_Witness ==
  /\ Done
  /\ \E i \in 1..Len(shards) :
       /\ shards[i].kind = "Hashtag"
       /\ shards[i].slice.len >= 2
       /\ SpanEnd(shards[i]) < Len(data)
  /\ \E p \in 0..(Len(data) - 1) : LoneHashAt(data, p)

(***************************************************************************)
(* C16  Flush order                                                         *)
(***************************************************************************)
SpanIndices(sh) == {i \in 1..Len(sh) : HasSpan(sh[i])}

\* C16: an iteration that recognises a token appends the Text shard of the
\* pending run [start, before_parse), unless that run is empty, then the
\* token's shard, a Hashtag or a Mention, and sets the start of the next run to
\* the cursor, which is past the token; once parse has returned, the shards
\* that carry a span are in buffer order, each ending at or before the offset
\* where the next one begins.
C16_FlushOrder ==
  [][ /\ (pc = "loop" /\ pc' = "loop" /\ shards' # shards)
         => /\ before_parse' = pos
            /\ Last(shards').kind \in {"Hashtag", "Mention"}
            /\ shards' = Append(WithPendingText(shards, start, before_parse'),
                                Last(shards'))
            /\ start' = pos'
            /\ pos' > before_parse'
      /\ Done' => \A i, j \in SpanIndices(shards') :
                    i < j => SpanEnd(shards'[i]) <= shards'[j].slice.pos
    ]_vars

\* a returned parse whose sequence is a Text shard, a token, a Text shard and
\* a token
C16_Witness ==
  /\ Done
  /\ Len(shards) >= 4
  /\ shards[1].kind = "Text" /\ shards[2].kind # "Text"
  /\ shards[3].kind = "Text" /\ shards[4].kind # "Text"

(***************************************************************************)
(* C17  Bytes outside every span                                            *)
(***************************************************************************)
\* the shards whose span holds the byte at offset p
SpansOver(p) ==
  {i \in SpanIndices(shards) :
     shards[i].slice.pos <= p /\ p < SpanEnd(shards[i])}

\* the offsets of the '#' right before a Hashtag span
HashtagMarkers == {shards[i].slice.pos - 1 : i \in {j \in 1..Len(shards) :
                                                     shards[j].kind = "Hashtag"}}

\* the offsets of the bytes of the "#[digits]" on a left boundary
MentionBytes ==
  UNION {b..(MentionEnd(data, b) - 1) :
           b \in {c \in 0..(Len(data) - 1) : MentionAt(data, c)}}

\* C17: once parse has returned, the offsets of the input that lie in no span
\* are exactly the '#' before each Hashtag span and the bytes of each
\* "#[digits]" that was recognised (one Mention per such sequence), and every
\* other offset lies in exactly one Text or Hashtag span.
C17_UncoveredBytes ==
  Done =>
    /\ \A p \in 0..(Len(data) - 1) :
         /\ Cardinality(SpansOver(p)) <= 1
         /\ SpansOver(p) = {} <=> p \in HashtagMarkers \cup MentionBytes
    /\ \A p \in HashtagMarkers : HashAt(data, p)
    /\ Cardinality({i \in 1..Len(shards) : shards[i].kind = "Mention"})
         = Cardinality({b \in 0..(Len(data) - 1) : MentionAt(data, b)})

\* a returned parse with a Mention between two Text shards
C17_Witness ==
  /\ Done
  /\ \E i \in 2..(Len(shards) - 1) :
       /\ shards[i].kind = "Mention"
       /\ shards[i - 1].kind = "Text"
       /\ shards[i + 1].kind = "Text"

\* a returned parse with a Hashtag between two Text shards
C17_WitnessHashtag ==
  /\ Done
  /\ \E i \in 2..(Len(shards) - 1) :
       /\ shards[i].kind = "Hashtag"
       /\ shards[i - 1].kind = "Text"
       /\ shards[i + 1].kind = "Text"

(***************************************************************************)
(* C18  No two consecutive Text shards                                      *)
(***************************************************************************)
\* C18: in every state of parse, a Text shard is the first shard of the
\* sequence or comes right after a Hashtag or a Mention: no two Text shards
\* are consecutive.
C18_NoConsecutiveText ==
  \A i \in 2..Len(shards) :
    shards[i].kind = "Text" => shards[i - 1].kind \in {"Hashtag", "Mention"}

\* a returned parse of an input in which a '#' on a left boundary, after and
\* before other bytes, started no token, and whose only shard is one Text
C18_Witness ==
  /\ Done
  /\ shards = <<Text(ByteSlice(0, Len(data)))>>
  /\ \E p \in 1..(Len(data) - 2) : LoneHashAt(data, p)

(***************************************************************************)
(* C19  Ordering of the loop's positions                                    *)
(***************************************************************************)
\* C19 as stated: in every state of the loop,
\* start <= before_parse <= position <= length.
C19_PositionsOrdered ==
  /\ start <= before_parse
  /\ before_parse <= pos
  /\ pos <= Len(data)

\* C19, amended: in every state of the loop before_parse <= position <=
\* length and 0 <= start <= position hold, and start <= before_parse holds
\* when an iteration records before_parse and when it calls push_txt (once a
\* token is recognised start is set to the cursor, past before_parse); so
\* every push_txt(start, upto), in the loop and after it, has start <= upto,
\* an iteration reads data()[position] only with position < length, and the
\* length parse_hashtag computes from the end of its scan is not negative.
C19_PositionsAmended ==
  [][ /\ before_parse' <= pos' /\ pos' <= Len(data)
      /\ 0 <= start' /\ start' <= pos'
      /\ (pc = "loop" /\ pos' # pos)
         => /\ pos < Len(data)
            /\ before_parse' = pos
            /\ start <= before_parse'
            /\ parse_until_boundary(data, pos + 1).pos - (pos + 1) >= 0
      /\ (pc = "loop" /\ Done') => start <= pos
    ]_vars

\* a state of the loop right after a token was recognised past a text run:
\* the start of the next run is beyond before_parse
C19_Witness ==
  /\ pc = "loop"
  /\ shards # <<>>
  /\ Last(shards).kind \in {"Hashtag", "Mention"}
  /\ start > before_parse
  /\ before_parse > 0

====
